---- MODULE Spec2Model ----
(***************************************************************************)
(* The audio engine of the music player: the control loop of the audio     *)
(* thread (src/src/main.rs), the command channel that feeds it and the     *)
(* event channel it writes to.                                             *)
(*                                                                         *)
(* The engine thread is sequential; pc is its position in the loop:        *)
(*   "outer"  line 60      process_audio_cmd of the outer loop             *)
(*   "match"  line 62      the arm of match state                        *)
(*   "inner"  line 67      process_audio_cmd of the decode loop            *)
(*   "body"   lines 69-138 state check, packet read, event, decode, write  *)
(*   "exit"   lines 141-149 error log, end-of-stream filter, finalize      *)
(*   "panicked"            the thread has unwound                          *)
(* The controller appends commands to audio_rx between any two engine      *)
(* steps.  The output device is assumed to open (output::try_open          *)
(* succeeds) and the receiver of ui_tx to stay alive.                      *)
(***************************************************************************)
EXTENDS Integers, Sequences, FiniteSets, TLC

VARIABLES
    state,               \* PlayerState of the audio thread
    audio_engine_state,  \* AudioEngineState
    decoder,             \* Option<Box<dyn Decoder>>
    current_track_path,  \* Option<PathBuf>
    audio_rx,            \* commands sent and not yet received
    ui_tx,               \* events sent and not yet received
    pc,                  \* position of the audio thread
    result,              \* value the decode loop broke with
    log,                 \* error-level tracing lines of the last step of the audio thread
    panic,               \* message of the panic that ended the thread, or ""
    calls,               \* calls the last step of the audio thread made on the session's parts
    pending,             \* history: the command received last, until its state is acted on
    last_load,           \* history: the last run of load_file
    ended,               \* history: the decode loop ended on end of stream and no command was received since
    track_state,         \* Player.track_state of the controller
    selected_track,      \* Player.selected_track of the controller
    seek_in_seconds,     \* Player.seek_in_seconds of the controller
    called               \* the Player method the last step called, with its playlist

vars == <<state, audio_engine_state, decoder, current_track_path, audio_rx,
          ui_tx, pc, result, log, panic, calls, pending, last_load, ended,
          track_state, selected_track, seek_in_seconds, called>>

\* ------------------------------------------------------------------ bounds

\* Commands waiting in the command channel.
MaxQueue == 1
\* Commands waiting in the command channel when the controller sends them
\* in bursts (BurstSpec).
MaxBurst == 2

\* Events waiting in the event channel.
MaxEvents == 1

\* --------------------------------------------------------------- constants

\* time_base = 1.0 / 44100.0
TicksPerSecond == 44100

\* ------------------------------------------------------------------ Option

None == <<>>
Some(x) == <<x>>
IsSome(o) == Len(o) > 0
Unwrap(o) == o[1]

\* ------------------------------------------------------- files on the disk

Track(id, codec, rate) == [id |-> id, codec |-> codec, time_base |-> Some(rate)]
Packet(track_id, ts, dec) == [track_id |-> track_id, ts |-> ts, dec |-> dec]

\* Codecs: "null" is CODEC_TYPE_NULL, "pcm" is registered with the codec
\* registry, "exotic" is a known codec type no decoder is registered for.
RegisteredCodecs == {"pcm"}

Paths == {"a.flac", "b.mkv", "bad.txt", "gone.mp3", "mute.mkv", "odd.mkv"}

\* What each path holds: whether it can be opened, whether the probe knows
\* its format, its tracks, its packets (dec: how the decoder answers the
\* packet), how next_packet fails after the last packet, and the verification
\* result its decoder finalizes with.
Media(path) ==
    CASE path = "a.flac" ->
            [exists |-> TRUE, probe_ok |-> TRUE,
             tracks |-> <<Track(0, "null", 44100), Track(1, "pcm", 44100)>>,
             packets |-> <<Packet(1, 0, "ok"), Packet(0, 0, "ok"),
                           Packet(1, 22050, "decode_error"), Packet(1, 44100, "ok")>>,
             tail |-> "end of stream", verify_ok |-> Some(FALSE)]
      [] path = "b.mkv" ->
            [exists |-> TRUE, probe_ok |-> TRUE,
             tracks |-> <<Track(2, "pcm", 22050), Track(1, "pcm", 22050)>>,
             packets |-> <<Packet(2, 0, "ok"), Packet(1, 0, "ok"),
                           Packet(2, 44100, "io_error")>>,
             tail |-> "end of stream", verify_ok |-> None]
      [] path = "mute.mkv" ->
            [exists |-> TRUE, probe_ok |-> TRUE,
             tracks |-> <<Track(5, "null", 44100)>>,
             packets |-> <<Packet(5, 0, "ok")>>,
             tail |-> "read error", verify_ok |-> None]
      [] path = "odd.mkv" ->
            [exists |-> TRUE, probe_ok |-> TRUE,
             tracks |-> <<Track(1, "exotic", 44100)>>,
             packets |-> <<Packet(1, 0, "ok")>>,
             tail |-> "end of stream", verify_ok |-> None]
      [] path = "bad.txt" ->
            [exists |-> TRUE, probe_ok |-> FALSE,
             tracks |-> <<>>, packets |-> <<>>,
             tail |-> "end of stream", verify_ok |-> None]
      [] OTHER ->
            [exists |-> FALSE, probe_ok |-> FALSE,
             tracks |-> <<>>, packets |-> <<>>,
             tail |-> "end of stream", verify_ok |-> None]

\* ---------------------------------------------------------------- commands

Cmd(cmd, path, arg) == [cmd |-> cmd, path |-> path, arg |-> arg]

SeekSeconds == {1}

\* enum AudioCommand: Select carries a track index, SetVolume a level
\* (in percent here).
Commands ==
    {Cmd(c, "", 0) : c \in {"Stop", "Play", "Pause"}}
    \cup {Cmd("Seek", "", s) : s \in SeekSeconds}
    \cup {Cmd("LoadFile", p, 0) : p \in Paths}
    \cup {Cmd("Select", "", 1), Cmd("SetVolume", "", 50)}
\* The event sent with the variant of the total duration.
CurrentTimestamp_AsDuration(secs) == [ev |-> "TotalTrackDuration", val |-> secs]

\* enum UiCommand
CurrentTimestamp(secs) == [ev |-> "CurrentTimestamp", val |-> secs]
AudioFinished == [ev |-> "AudioFinished", val |-> 0]

\* enum PlayerState
St(tag, path, secs) == [tag |-> tag, path |-> path, secs |-> secs]

Line(level, msg) == [level |-> level, msg |-> msg]

\* A call on a part of the session (reader, decoder, output): op is what is
\* done ("new", "drop", "seek", "decode", "open", "write", "finalize"), obj
\* the part or the answer, n the track id of the packet for "decode".
Call(op, obj, n) == [op |-> op, obj |-> obj, n |-> n]

\* ------------------------------------------------------- process_audio_cmd

\* The catch-all arm of process_audio_cmd stopping the playback.
process_audio_cmd_OtherStops(st, cmd) ==
    CASE cmd.cmd = "Seek" ->
            [state |-> St("SeekTo", "", cmd.arg),
             log |-> <<Line("info", "Processing SEEK command")>>]
      [] cmd.cmd = "Stop" ->
            [state |-> St("Stopped", "", 0),
             log |-> <<Line("info", "Processing STOP command")>>]
      [] cmd.cmd = "Pause" ->
            [state |-> St("Paused", "", 0),
             log |-> <<Line("info", "Processing PAUSE command")>>]
      [] cmd.cmd = "Play" ->
            [state |-> St("Playing", "", 0),
             log |-> <<Line("info", "Processing PLAY command")>>]
      [] cmd.cmd = "LoadFile" ->
            [state |-> St("LoadFile", cmd.path, 0),
             log |-> <<Line("info", "Processing LOAD FILE command")>>]
      [] OTHER ->
            [state |-> St("Stopped", "", 0),
             log |-> <<Line("warn", "Unhandled case in audio command loop")>>]


\* The state and the log line after cmd is received in st.
process_audio_cmd(st, cmd) ==
    CASE cmd.cmd = "Seek" ->
            [state |-> St("SeekTo", "", cmd.arg),
             log |-> <<Line("info", "Processing SEEK command")>>]
      [] cmd.cmd = "Stop" ->
            [state |-> St("Stopped", "", 0),
             log |-> <<Line("info", "Processing STOP command")>>]
      [] cmd.cmd = "Pause" ->
            [state |-> St("Paused", "", 0),
             log |-> <<Line("info", "Processing PAUSE command")>>]
      [] cmd.cmd = "Play" ->
            [state |-> St("Playing", "", 0),
             log |-> <<Line("info", "Processing PLAY command")>>]
      [] cmd.cmd = "LoadFile" ->
            [state |-> St("LoadFile", cmd.path, 0),
             log |-> <<Line("info", "Processing LOAD FILE command")>>]
      [] OTHER ->
            [state |-> st,
             log |-> <<Line("warn", "Unhandled case in audio command loop")>>]

\* ---------------------------------------------------------- Load Procedure

first_supported_track(tracks) ==
    LET known == {i \in 1..Len(tracks) : tracks[i].codec # "null"}
    IN  IF known = {} THEN None
        ELSE Some(tracks[CHOOSE i \in known : \A j \in known : i <= j])

\* Lines 330-332: the track with index track_num if there is one, otherwise
\* the first track with a known codec.
select_track(tracks, track_num) ==
    IF IsSome(track_num) /\ Unwrap(track_num) < Len(tracks)
    THEN Some(tracks[Unwrap(track_num) + 1])
    ELSE first_supported_track(tracks)

\* The required timestamp of a seek one second later than asked for.
RequiredTs_Late(track, seconds) ==
    IF IsSome(track.time_base) THEN (seconds + 1) * Unwrap(track.time_base) ELSE 0

\* seeked_to.required_ts (line 354): the timestamp of the time asked for,
\* Time::from(seconds) in the time base of the track.
RequiredTs(track, seconds) ==
    IF IsSome(track.time_base) THEN seconds * Unwrap(track.time_base) ELSE 0

\* What reader.seek(SeekMode::Accurate, ..) may answer on the reader of path
\* when asked for seconds: Ok with the required timestamp and the reader left
\* on a packet at or before it, Error::ResetRequired, or another error.
SeekAnswers(path, track_num, seconds) ==
    LET packets == Media(path).packets
        track == select_track(Media(path).tracks, track_num)
        r == IF IsSome(track) THEN RequiredTs(Unwrap(track), seconds) ELSE 0
    IN  {[kind |-> "Ok", required_ts |-> r, pos |-> p] :
            p \in {q \in 0..(Len(packets) - 1) : packets[q + 1].ts <= r}}
        \cup {[kind |-> "ResetRequired", required_ts |-> 0, pos |-> 0],
              [kind |-> "SeekError", required_ts |-> 0, pos |-> 0]}

\* The seek timestamp with the answer of a failed seek taken for a position.
SeekTs_OfErrors(ans) == IF ans.kind = "Ok" THEN ans.required_ts ELSE 44100

\* Lines 353-366: the seek timestamp for the answer of reader.seek, 0 unless
\* the seek succeeded.
SeekTs(ans) == IF ans.kind = "Ok" THEN ans.required_ts ELSE 0

\* setup_audio_reader on engine state es when the reader answers the seek
\* with ans: the engine state after it, its log lines, its panic ("" if
\* none), whether it recorded PlayTrackOptions (line 375) and its calls on
\* the reader.
setup_audio_reader(es, ans) ==
    LET reader == Unwrap(es.reader)
        tracks == Media(reader.src).tracks
        track  == select_track(tracks, es.track_num)
        seeks  == <<Call("seek", ans.kind, 0)>>
    IN  IF ~IsSome(track)
        THEN [es |-> es, log |-> <<>>, panic |-> "", recorded |-> FALSE,
              calls |-> <<>>]
        ELSE IF ~IsSome(es.seek)
        THEN [es |-> [es EXCEPT !.track_info =
                        Some([track_id |-> Unwrap(track).id, seek_ts |-> 0])],
              log |-> <<Line("info", "seek ts")>>, panic |-> "", recorded |-> TRUE,
              calls |-> <<>>]
        ELSE CASE ans.kind = "Ok" ->
                    [es |-> [es EXCEPT
                        !.reader = Some([reader EXCEPT !.pos = ans.pos]),
                        !.track_info = Some([track_id |-> Unwrap(track).id,
                                             seek_ts |-> SeekTs(ans)])],
                     log |-> <<Line("info", "seek ts")>>, panic |-> "", recorded |-> TRUE,
                     calls |-> seeks]
               [] ans.kind = "ResetRequired" ->
                    IF ~IsSome(first_supported_track(tracks))
                    THEN [es |-> es,
                          log |-> <<Line("warn", "reset required...")>>,
                          panic |-> "unwrap on None", recorded |-> FALSE,
                          calls |-> seeks]
                    ELSE [es |-> [es EXCEPT !.track_info =
                            Some([track_id |-> Unwrap(first_supported_track(tracks)).id,
                                  seek_ts |-> SeekTs(ans)])],
                          log |-> <<Line("warn", "reset required..."),
                                    Line("info", "seek ts")>>,
                          panic |-> "", recorded |-> TRUE, calls |-> seeks]
               [] OTHER ->
                    [es |-> [es EXCEPT !.track_info =
                        Some([track_id |-> Unwrap(track).id, seek_ts |-> SeekTs(ans)])],
                     log |-> <<Line("warn", "seek error"), Line("info", "seek ts")>>,
                     panic |-> "", recorded |-> TRUE, calls |-> seeks]

\* The decoder the codec registry makes for track of path.
MakeDecoder(path, track) == [src |-> path, track_id |-> track.id]

\* load_file(path, es, dec, seek_to_seconds) when the reader answers the seek
\* with ans: the engine state and the decoder after it, its log lines, its
\* panic ("" if none), how far it got, the seek timestamp this run recorded
\* in PlayTrackOptions, if it recorded one, and its calls on the parts of the
\* session in the order the code makes them: the probe makes the new reader
\* (line 282) before the assignment of line 289 drops the old one, and
\* the registry makes the new decoder before the assignment of line 307
\* drops the old one.
load_file(path, es, dec, seek_to_seconds, ans) ==
    LET media == Media(path)
        es1 == [es EXCEPT !.reader = Some([src |-> path, pos |-> 0]),
                          !.decode_opts = Some([verify |-> TRUE]),
                          !.seek = Some(seek_to_seconds)]
        su  == setup_audio_reader(es1, ans)
        es2 == su.es
        found == {i \in 1..Len(media.tracks) :
                    media.tracks[i].id = Unwrap(es2.track_info).track_id}
        track == media.tracks[CHOOSE i \in found : \A j \in found : i <= j]
        resolved == IF su.recorded THEN Some(Unwrap(es2.track_info).seek_ts) ELSE None
        probed == <<Call("new", "reader", 0)>>
                  \o (IF IsSome(es.reader) THEN <<Call("drop", "reader", 0)>> ELSE <<>>)
                  \o su.calls
        made == probed \o <<Call("new", "decoder", 0)>>
                \o (IF IsSome(dec) THEN <<Call("drop", "decoder", 0)>> ELSE <<>>)
    IN  IF ~media.exists
        THEN [es |-> es, decoder |-> dec, log |-> <<>>, calls |-> <<>>,
              panic |-> "couldn't open file", outcome |-> "open failed", seek_ts |-> None]
        ELSE IF ~media.probe_ok
        THEN [es |-> es, decoder |-> dec,
              log |-> <<Line("warn", "the audio format is not supported")>>,
              calls |-> <<>>,
              panic |-> "", outcome |-> "probe failed", seek_ts |-> None]
        ELSE IF su.panic # ""
        THEN [es |-> es2, decoder |-> dec, log |-> su.log, calls |-> probed,
              panic |-> su.panic, outcome |-> "setup panicked", seek_ts |-> None]
        ELSE IF ~IsSome(es2.track_info)
        THEN [es |-> es2, decoder |-> dec, log |-> su.log, calls |-> probed,
              panic |-> "unwrap on None",
              outcome |-> "no track", seek_ts |-> None]
        ELSE IF found = {}
        THEN [es |-> es2, decoder |-> dec,
              log |-> su.log \o <<Line("warn", "Couldn't find track")>>,
              calls |-> probed,
              panic |-> "", outcome |-> "track not found", seek_ts |-> resolved]
        ELSE IF track.codec \notin RegisteredCodecs
        THEN [es |-> es2, decoder |-> dec, log |-> su.log, calls |-> probed,
              panic |-> "Failed to get decoder", outcome |-> "no decoder",
              seek_ts |-> resolved]
        ELSE IF ~IsSome(track.time_base)
        THEN [es |-> es2, decoder |-> Some(MakeDecoder(path, track)), log |-> su.log,
              calls |-> made,
              panic |-> "unwrap on None",
              outcome |-> "no time base", seek_ts |-> resolved]
        ELSE [es |-> es2, decoder |-> Some(MakeDecoder(path, track)),
              log |-> su.log \o <<Line("info", "Track Duration")>>,
              calls |-> made,
              panic |-> "", outcome |-> "loaded", seek_ts |-> resolved]

\* --------------------------------------------------------------- the Player

\* The LibraryItems the playlists are made of, named by their paths.
LibraryItems == {"a.flac", "b.mkv"}

\* The playlists Player::next and Player::previous are called with.
Playlists ==
    {[tracks |-> t] : t \in {<<>>, <<"b.mkv">>, <<"a.flac", "b.mkv">>,
                             <<"a.flac", "b.mkv", "a.flac">>}}

\* Playlist::get_pos: the index, from 0, of the first track of the playlist
\* equal to track, if there is one.
get_pos(playlist, track) ==
    LET found == {i \in 1..Len(playlist.tracks) : playlist.tracks[i] = track}
    IN  IF found = {} THEN None
        ELSE Some((CHOOSE i \in found : \A j \in found : i <= j) - 1)

\* What a method of Player leaves: the Player after it and the commands it
\* sent on audio_tx.
Done(self, sent) == [self |-> self, sent |-> sent]

\* Player::seek_to
seek_to(self, seconds) ==
    Done([self EXCEPT !.seek_in_seconds = seconds], <<Cmd("Seek", "", seconds)>>)

\* Player::stop
stop(self) ==
    IF self.track_state \in {"Playing", "Paused"}
    THEN Done([self EXCEPT !.track_state = "Stopped"], <<Cmd("Stop", "", 0)>>)
    ELSE Done(self, <<>>)

\* Player::play
play(self) ==
    IF IsSome(self.selected_track)
    THEN IF self.track_state \in {"Unstarted", "Stopped", "Playing"}
         THEN Done([self EXCEPT !.track_state = "Playing"],
                   <<Cmd("LoadFile", Unwrap(self.selected_track), 0)>>)
         ELSE Done([self EXCEPT !.track_state = "Playing"], <<Cmd("Play", "", 0)>>)
    ELSE Done(self, <<>>)

\* Player::pause resuming from every state but Playing.
pause_Toggles(self) ==
    CASE self.track_state = "Playing" ->
            Done([self EXCEPT !.track_state = "Paused"], <<Cmd("Pause", "", 0)>>)
      [] self.track_state = "Paused" ->
            Done([self EXCEPT !.track_state = "Playing"], <<Cmd("Play", "", 0)>>)
      [] OTHER ->
            Done([self EXCEPT !.track_state = "Playing"], <<Cmd("Play", "", 0)>>)

\* Player::pause
pause(self) ==
    CASE self.track_state = "Playing" ->
            Done([self EXCEPT !.track_state = "Paused"], <<Cmd("Pause", "", 0)>>)
      [] self.track_state = "Paused" ->
            Done([self EXCEPT !.track_state = "Playing"], <<Cmd("Play", "", 0)>>)
      [] OTHER -> Done(self, <<>>)

\* Player::previous.  Indices count from 0 in the code and from 1 here.
previous(self, playlist) ==
    IF IsSome(self.selected_track)
    THEN LET current_track_position == get_pos(playlist, Unwrap(self.selected_track))
         IN  IF IsSome(current_track_position) /\ Unwrap(current_track_position) > 0
             THEN play([self EXCEPT !.selected_track =
                         Some(playlist.tracks[(Unwrap(current_track_position) - 1) + 1])])
             ELSE Done(self, <<>>)
    ELSE Done(self, <<>>)

\* Player::next with the test and the index of Player::previous.
next_AsPrevious(self, playlist) ==
    IF IsSome(self.selected_track)
    THEN LET current_track_position == get_pos(playlist, Unwrap(self.selected_track))
         IN  IF IsSome(current_track_position) /\ Unwrap(current_track_position) > 0
             THEN play([self EXCEPT !.selected_track =
                         Some(playlist.tracks[(Unwrap(current_track_position) - 1) + 1])])
             ELSE Done(self, <<>>)
    ELSE Done(self, <<>>)

\* Player::next.  get_pos answers with a position only for a playlist that
\* has a track, so tracks.len() - 1 does not go below 0.
next(self, playlist) ==
    IF IsSome(self.selected_track)
    THEN LET current_track_position == get_pos(playlist, Unwrap(self.selected_track))
         IN  IF /\ IsSome(current_track_position)
                /\ Unwrap(current_track_position) < Len(playlist.tracks) - 1
             THEN play([self EXCEPT !.selected_track =
                         Some(playlist.tracks[(Unwrap(current_track_position) + 1) + 1])])
             ELSE Done(self, <<>>)
    ELSE Done(self, <<>>)

\* --------------------------------------------------------------- the state

NoSession ==
    [reader |-> None, audio_output |-> None, track_num |-> None,
     seek |-> None, decode_opts |-> None, track_info |-> None]

Init ==
    /\ state = St("Unstarted", "", 0)
    /\ audio_engine_state = NoSession
    /\ decoder = None
    /\ current_track_path = None
    /\ audio_rx = <<>>
    /\ ui_tx = <<>>
    /\ pc = "outer"
    /\ result = "ok"
    /\ log = <<>>
    /\ panic = ""
    /\ calls = <<>>
    /\ pending = None
    /\ last_load = None
    /\ ended = FALSE
    /\ track_state = "Unstarted"
    /\ selected_track = None
    /\ seek_in_seconds = 0
    /\ called = None

\* ----------------------------------------------------------- the controller

\* A step that calls no method of the Player.
NoPlayerCall ==
    /\ called' = None
    /\ UNCHANGED <<track_state, selected_track, seek_in_seconds>>

\* Sender<AudioCommand>::send from the controller thread.  After the audio
\* thread has panicked the receiver is gone and nothing is queued.
ControllerSend ==
    /\ NoPlayerCall
    /\ pc \in {"outer", "inner"}
    /\ Len(audio_rx) < MaxQueue
    /\ \E c \in Commands : audio_rx' = Append(audio_rx, c)
    /\ UNCHANGED <<state, audio_engine_state, decoder, current_track_path,
                   ui_tx, pc, result, log, panic, calls, pending, last_load, ended>>

\* The controller takes the oldest event from the event channel.
UiReceive ==
    /\ NoPlayerCall
    /\ ui_tx # <<>>
    /\ ui_tx' = Tail(ui_tx)
    /\ UNCHANGED <<state, audio_engine_state, decoder, current_track_path,
                   audio_rx, pc, result, log, panic, calls, pending, last_load, ended>>

\* ---------------------------------------------------------- the audio thread

\* A panic of the audio thread: the thread unwinds, its locals (the session,
\* the decoder, the receiver with the commands still in it) are dropped.
Panics(msg, lines) ==
    /\ pc' = "panicked"
    /\ panic' = msg
    /\ log' = lines
    /\ audio_engine_state' = NoSession
    /\ decoder' = None
    /\ current_track_path' = None
    /\ audio_rx' = <<>>
    /\ pending' = None
    /\ result' = "ok"
    /\ ended' = FALSE
    /\ UNCHANGED state

\* process_audio_cmd(&audio_rx, &mut state): try_recv takes at most one
\* command.
Receive ==
    IF audio_rx = <<>>
    THEN UNCHANGED <<state, audio_rx, pending, ended>>
    ELSE /\ state' = process_audio_cmd(state, Head(audio_rx)).state
         /\ audio_rx' = Tail(audio_rx)
         /\ pending' = Some(Head(audio_rx))
         /\ ended' = FALSE

\* Line 60: the outer loop polls the command channel.
OuterReceive ==
    /\ NoPlayerCall
    /\ pc = "outer"
    /\ Receive
    /\ pc' = "match"
    /\ log' = <<>>
    /\ calls' = <<>>
    /\ UNCHANGED <<audio_engine_state, decoder, current_track_path, ui_tx,
                   result, panic, last_load>>

\* Line 63: the Playing arm enters the decode loop.
MatchPlaying ==
    /\ NoPlayerCall
    /\ pc = "match"
    /\ state.tag = "Playing"
    /\ pc' = "inner"
    /\ log' = <<>>
    /\ calls' = <<>>
    /\ pending' = None
    /\ UNCHANGED <<state, audio_engine_state, decoder, current_track_path,
                   audio_rx, ui_tx, result, panic, last_load, ended>>

\* audio_output.flush() and audio_engine_state.audio_output = None (lines
\* 153-157, 161-165, 174-178): the calls on the output out.
DropOutput(out) ==
    IF IsSome(out) THEN <<Call("flush", "output", 0), Call("drop", "output", 0)>>
    ELSE <<>>

\* The Stopped arm without audio_engine_state.audio_output = None.
MatchStopped_KeepsOutput ==
    /\ NoPlayerCall
    /\ pc = "match"
    /\ state.tag = "Stopped"
    /\ pc' = "outer"
    /\ log' = <<>>
    /\ calls' = <<>>
    /\ pending' = None
    /\ UNCHANGED <<state, audio_engine_state, decoder, current_track_path,
                   audio_rx, ui_tx, result, panic, last_load, ended>>

\* The Stopped arm dropping the reader along with the output.
MatchStopped_DropsReader ==
    /\ NoPlayerCall
    /\ pc = "match"
    /\ state.tag = "Stopped"
    /\ audio_engine_state' = [audio_engine_state EXCEPT !.audio_output = None,
                                                        !.reader = None]
    /\ calls' = DropOutput(audio_engine_state.audio_output)
    /\ pc' = "outer"
    /\ log' = <<>>
    /\ pending' = None
    /\ UNCHANGED <<state, decoder, current_track_path, audio_rx, ui_tx,
                   result, panic, last_load, ended>>


\* Lines 151-158: the Stopped arm flushes the output and drops it.
MatchStopped ==
    /\ NoPlayerCall
    /\ pc = "match"
    /\ state.tag = "Stopped"
    /\ audio_engine_state' = [audio_engine_state EXCEPT !.audio_output = None]
    /\ calls' = DropOutput(audio_engine_state.audio_output)
    /\ pc' = "outer"
    /\ log' = <<>>
    /\ pending' = None
    /\ UNCHANGED <<state, decoder, current_track_path, audio_rx, ui_tx,
                   result, panic, last_load, ended>>

\* The record of a run of load_file kept in last_load; opens counts the
\* openings of the output since that run.
LoadRun(path, offset, r) ==
    [path |-> path, offset |-> offset, outcome |-> r.outcome, seek_ts |-> r.seek_ts,
     opens |-> 0]

\* The part the SeekTo and LoadFile arms share: the output is flushed and
\* dropped, load_file runs on path with the offset, the state becomes
\* Playing.
Reload(path, offset) ==
    \E ans \in SeekAnswers(path, audio_engine_state.track_num, offset) :
        LET r == load_file(path, [audio_engine_state EXCEPT !.audio_output = None],
                           decoder, offset, ans)
        IN  /\ last_load' = Some(LoadRun(path, offset, r))
            /\ calls' = DropOutput(audio_engine_state.audio_output) \o r.calls
            /\ IF r.panic # ""
               THEN Panics(r.panic, <<>>) /\ UNCHANGED ui_tx
               ELSE /\ audio_engine_state' = r.es
                    /\ decoder' = r.decoder
                    /\ state' = St("Playing", "", 0)
                    /\ pc' = "outer"
                    /\ log' = <<>>
                    /\ pending' = None
                    /\ UNCHANGED <<audio_rx, ui_tx, result, panic, ended>>

\* The SeekTo arm reloading from the start instead of the position asked for.
MatchSeekTo_FromStart ==
    /\ NoPlayerCall
    /\ pc = "match"
    /\ state.tag = "SeekTo"
    /\ IF IsSome(current_track_path)
       THEN /\ Reload(Unwrap(current_track_path), 0)
            /\ IF pc' = "panicked" THEN TRUE
               ELSE current_track_path' = current_track_path
       ELSE /\ pc' = "outer"
            /\ log' = <<>>
            /\ calls' = <<>>
            /\ pending' = None
            /\ UNCHANGED <<state, audio_engine_state, decoder, current_track_path,
                           audio_rx, ui_tx, result, panic, last_load, ended>>

\* Lines 159-171: the SeekTo arm.
MatchSeekTo ==
    /\ NoPlayerCall
    /\ pc = "match"
    /\ state.tag = "SeekTo"
    /\ IF IsSome(current_track_path)
       THEN /\ Reload(Unwrap(current_track_path), state.secs)
            /\ IF pc' = "panicked" THEN TRUE
               ELSE current_track_path' = current_track_path
       ELSE /\ pc' = "outer"
            /\ log' = <<>>
            /\ calls' = <<>>
            /\ pending' = None
            /\ UNCHANGED <<state, audio_engine_state, decoder, current_track_path,
                           audio_rx, ui_tx, result, panic, last_load, ended>>

\* Lines 172-188: the LoadFile arm.
MatchLoadFile ==
    /\ NoPlayerCall
    /\ pc = "match"
    /\ state.tag = "LoadFile"
    /\ Reload(state.path, 0)
    /\ IF pc' = "panicked" THEN TRUE
       ELSE current_track_path' = Some(state.path)

\* The Paused arm flushing and dropping the output as the Stopped arm does.
MatchIdle_DropsOutput ==
    /\ NoPlayerCall
    /\ pc = "match"
    /\ state.tag \in {"Paused", "Unstarted"}
    /\ audio_engine_state' = [audio_engine_state EXCEPT !.audio_output = None]
    /\ pc' = "outer"
    /\ log' = <<>>
    /\ calls' = DropOutput(audio_engine_state.audio_output)
    /\ pending' = None
    /\ UNCHANGED <<state, decoder, current_track_path, audio_rx, ui_tx,
                   result, panic, last_load, ended>>

\* Lines 189-192: the Paused and Unstarted arms do nothing.
MatchIdle ==
    /\ NoPlayerCall
    /\ pc = "match"
    /\ state.tag \in {"Paused", "Unstarted"}
    /\ pc' = "outer"
    /\ log' = <<>>
    /\ calls' = <<>>
    /\ pending' = None
    /\ UNCHANGED <<state, audio_engine_state, decoder, current_track_path,
                   audio_rx, ui_tx, result, panic, last_load, ended>>

\* The decode loop without its poll of the command channel.
InnerReceive_NoPoll ==
    /\ NoPlayerCall
    /\ pc = "inner"
    /\ pc' = "body"
    /\ log' = <<>>
    /\ calls' = <<>>
    /\ UNCHANGED <<state, audio_rx, pending, ended, audio_engine_state, decoder,
                   current_track_path, ui_tx, result, panic, last_load>>

\* Line 67: the decode loop polls the command channel.
InnerReceive ==
    /\ NoPlayerCall
    /\ pc = "inner"
    /\ Receive
    /\ pc' = "body"
    /\ log' = <<>>
    /\ calls' = <<>>
    /\ UNCHANGED <<audio_engine_state, decoder, current_track_path, ui_tx,
                   result, panic, last_load>>

\* Lines 69-71: the decode loop ends when the state is no longer Playing.
BreakOnState ==
    /\ NoPlayerCall
    /\ pc = "body"
    /\ state.tag # "Playing"
    /\ result' = "ok"
    /\ pc' = "exit"
    /\ log' = <<>>
    /\ calls' = <<>>
    /\ UNCHANGED <<state, audio_engine_state, decoder, current_track_path,
                   audio_rx, ui_tx, panic, pending, last_load, ended>>

\* Line 86: current_track_seconds as u64.
current_track_seconds(ts) == ts \div TicksPerSecond

\* The write without the comparison with the seek timestamp.
WritesPacket_Always(ts, seek_ts) == TRUE

\* Line 120: packet.ts() >= play_opts.seek_ts
WritesPacket(ts, seek_ts) == ts >= seek_ts

\* Lines 99-131: a decoded packet opens the output if there is none and is
\* written if its timestamp is not below the seek timestamp.
Written(out, src, ts, seek_ts) ==
    LET o == IF IsSome(out) THEN Unwrap(out) ELSE [src |-> src, wrote |-> {}]
    IN  Some(IF WritesPacket(ts, seek_ts)
             THEN [o EXCEPT !.wrote = @ \cup {ts}] ELSE o)

\* The packet filter without the comparison of track ids.
SkipsPacket_Never(packet, play_opts) == FALSE

\* Line 92: packet.track_id() != play_opts.track_id
SkipsPacket(packet, play_opts) == packet.track_id # play_opts.track_id

\* The decode result with Error::DecodeError treated like any other error.
NonFatal_Never(dec) == FALSE

\* Line 132: the arm Err(Error::DecodeError(err)) of the match on the
\* result of decode.
NonFatal(dec) == dec = "decode_error"

\* Lines 98-130: the calls made for a packet the decoder decodes: the
\* output is opened if out is None, the samples are written if the
\* timestamp passes.
DecodeCalls(out, packet, seek_ts) ==
    <<Call("decode", "decoder", packet.track_id)>>
    \o (IF IsSome(out) THEN <<>> ELSE <<Call("open", "output", 0)>>)
    \o (IF WritesPacket(packet.ts, seek_ts) THEN <<Call("write", "output", 0)>> ELSE <<>>)

\* The record of the last run of load_file after the output was opened
\* once more.
Opened(load, out) ==
    IF IsSome(out) \/ ~IsSome(load) THEN load
    ELSE Some([Unwrap(load) EXCEPT !.opens = @ + 1])

\* Lines 73-138: one packet of the decode loop.
DecodePacket ==
    /\ NoPlayerCall
    /\ pc = "body"
    /\ state.tag = "Playing"
    /\ IF ~IsSome(audio_engine_state.reader) \/ ~IsSome(audio_engine_state.track_info)
       THEN /\ Panics("unwrap on None", <<>>)
            /\ calls' = <<>>
            /\ UNCHANGED <<ui_tx, last_load>>
       ELSE LET reader == Unwrap(audio_engine_state.reader)
                play_opts == Unwrap(audio_engine_state.track_info)
                media == Media(reader.src)
            IN  IF reader.pos >= Len(media.packets)
                THEN /\ result' = media.tail
                     /\ pc' = "exit"
                     /\ log' = <<>>
                     /\ calls' = <<>>
                     /\ pending' = None
                     /\ UNCHANGED <<state, audio_engine_state, decoder,
                                    current_track_path, audio_rx, ui_tx, panic,
                                    last_load, ended>>
                ELSE LET packet == media.packets[reader.pos + 1]
                         es1 == [audio_engine_state EXCEPT
                                    !.reader = Some([reader EXCEPT !.pos = @ + 1])]
                     IN  /\ Len(ui_tx) < MaxEvents
                         /\ ui_tx' = Append(ui_tx,
                                CurrentTimestamp(current_track_seconds(packet.ts)))
                         /\ IF SkipsPacket(packet, play_opts)
                            THEN /\ audio_engine_state' = es1
                                 /\ pc' = "inner"
                                 /\ log' = <<>>
                                 /\ calls' = <<>>
                                 /\ pending' = None
                                 /\ UNCHANGED <<state, decoder, current_track_path,
                                                audio_rx, result, panic, last_load, ended>>
                            ELSE IF ~IsSome(decoder)
                            THEN /\ Panics("unwrap on None", <<>>)
                                 /\ calls' = <<>>
                                 /\ UNCHANGED last_load
                            ELSE IF packet.dec = "ok"
                            THEN /\ audio_engine_state' = [es1 EXCEPT !.audio_output =
                                        Written(@, reader.src, packet.ts, play_opts.seek_ts)]
                                 /\ last_load' = Opened(last_load,
                                                    audio_engine_state.audio_output)
                                 /\ pc' = "inner"
                                 /\ log' = <<>>
                                 /\ calls' = DecodeCalls(audio_engine_state.audio_output,
                                                         packet, play_opts.seek_ts)
                                 /\ pending' = None
                                 /\ UNCHANGED <<state, decoder, current_track_path,
                                                audio_rx, result, panic, ended>>
                            ELSE IF NonFatal(packet.dec)
                            THEN /\ audio_engine_state' = es1
                                 /\ pc' = "inner"
                                 /\ log' = <<>>
                                 /\ calls' = <<Call("decode", "decoder", packet.track_id)>>
                                 /\ pending' = None
                                 /\ UNCHANGED <<state, decoder, current_track_path,
                                                audio_rx, result, panic, last_load, ended>>
                            ELSE /\ audio_engine_state' = es1
                                 /\ result' = packet.dec
                                 /\ pc' = "exit"
                                 /\ log' = <<>>
                                 /\ calls' = <<Call("decode", "decoder", packet.track_id)>>
                                 /\ pending' = None
                                 /\ UNCHANGED <<state, decoder, current_track_path,
                                                audio_rx, panic, last_load, ended>>

\* ignore_end_of_stream_error: whether the result is Ok after it.
ignore_end_of_stream_error(res) == res \in {"ok", "end of stream"}

\* Line 141-143: the line logged for the result of the decode loop.
PlayingErrorLog(res) ==
    IF res # "ok" THEN <<Line("error", "playing error")>> ELSE <<>>

\* Lines 141-149: after the decode loop.  decoder.finalize() of line 149 is
\* reached only if neither expect nor unwrap panicked before it.
ExitLoop ==
    /\ NoPlayerCall
    /\ pc = "exit"
    /\ IF ~ignore_end_of_stream_error(result)
       THEN /\ Panics("failed to ignore EoF", PlayingErrorLog(result))
            /\ calls' = <<>>
            /\ UNCHANGED <<ui_tx, last_load>>
       ELSE IF ~IsSome(decoder)
       THEN /\ Panics("unwrap on None", PlayingErrorLog(result))
            /\ calls' = <<>>
            /\ UNCHANGED <<ui_tx, last_load>>
       ELSE /\ log' = PlayingErrorLog(result)
            /\ calls' = <<Call("finalize", "decoder", 0)>>
            /\ pc' = "outer"
            /\ result' = "ok"
            /\ ended' = (ended \/ result = "end of stream")
            /\ UNCHANGED <<state, audio_engine_state, decoder, current_track_path,
                           audio_rx, ui_tx, panic, pending, last_load>>

Next ==
    \/ ControllerSend
    \/ UiReceive
    \/ OuterReceive
    \/ MatchPlaying
    \/ MatchStopped
    \/ MatchSeekTo
    \/ MatchLoadFile
    \/ MatchIdle
    \/ InnerReceive
    \/ BreakOnState
    \/ DecodePacket
    \/ ExitLoop

Spec == Init /\ [][Next]_vars

\* ------------------------------------------------- the calls of the Player

\* struct Player
Self ==
    [track_state |-> track_state, selected_track |-> selected_track,
     seek_in_seconds |-> seek_in_seconds]

\* A call of a method of the Player from the controller thread that leaves
\* done: the fields of the Player are updated, the commands sent are queued.
\* As for ControllerSend, nothing is sent once the audio thread has panicked.
PlayerCall(done) ==
    /\ pc \in {"outer", "inner"}
    /\ Len(audio_rx) + Len(done.sent) <= MaxQueue
    /\ audio_rx' = audio_rx \o done.sent
    /\ track_state' = done.self.track_state
    /\ selected_track' = done.self.selected_track
    /\ seek_in_seconds' = done.self.seek_in_seconds
    /\ UNCHANGED <<state, audio_engine_state, decoder, current_track_path,
                   ui_tx, pc, result, log, panic, calls, pending, last_load, ended>>

\* The method called and the playlist it was called with.
Called(method, playlist) == Some([method |-> method, playlist |-> playlist])

\* The methods called without a playlist.
NoPlaylist == [tracks |-> <<>>]

\* A click on a row of the playlist table selects its track.
SelectTrack ==
    \E track \in LibraryItems :
        /\ called' = Called("select", NoPlaylist)
        /\ PlayerCall(Done([Self EXCEPT !.selected_track = Some(track)], <<>>))

CallSeekTo ==
    \E seconds \in SeekSeconds :
        /\ called' = Called("seek_to", NoPlaylist)
        /\ PlayerCall(seek_to(Self, seconds))

CallStop ==
    /\ called' = Called("stop", NoPlaylist)
    /\ PlayerCall(stop(Self))

CallPlay ==
    /\ called' = Called("play", NoPlaylist)
    /\ PlayerCall(play(Self))

CallPause ==
    /\ called' = Called("pause", NoPlaylist)
    /\ PlayerCall(pause(Self))

CallPrevious ==
    \E playlist \in Playlists :
        /\ called' = Called("previous", playlist)
        /\ PlayerCall(previous(Self, playlist))

CallNext ==
    \E playlist \in Playlists :
        /\ called' = Called("next", playlist)
        /\ PlayerCall(next(Self, playlist))

\* The audio thread driven by the Player alone.
PlayerNext ==
    \/ SelectTrack
    \/ CallSeekTo
    \/ CallStop
    \/ CallPlay
    \/ CallPause
    \/ CallPrevious
    \/ CallNext
    \/ UiReceive
    \/ OuterReceive
    \/ MatchPlaying
    \/ MatchStopped
    \/ MatchSeekTo
    \/ MatchLoadFile
    \/ MatchIdle
    \/ InnerReceive
    \/ BreakOnState
    \/ DecodePacket
    \/ ExitLoop

PlayerSpec == Init /\ [][PlayerNext]_vars

\* ------------------------------------------------ the controller in bursts

\* The commands of a controller that sends several before the audio thread
\* polls.
BurstCommands ==
    {Cmd("Stop", "", 0), Cmd("Seek", "", 1), Cmd("LoadFile", "a.flac", 0),
     Cmd("SetVolume", "", 50)}

\* Sender<AudioCommand>::send, up to MaxBurst commands ahead of the audio
\* thread.
ControllerBurst ==
    /\ NoPlayerCall
    /\ pc \in {"outer", "inner"}
    /\ Len(audio_rx) < MaxBurst
    /\ \E c \in BurstCommands : audio_rx' = Append(audio_rx, c)
    /\ UNCHANGED <<state, audio_engine_state, decoder, current_track_path,
                   ui_tx, pc, result, log, panic, calls, pending, last_load, ended>>

BurstNext ==
    \/ ControllerBurst
    \/ UiReceive
    \/ OuterReceive
    \/ MatchPlaying
    \/ MatchStopped
    \/ MatchSeekTo
    \/ MatchLoadFile
    \/ MatchIdle
    \/ InnerReceive
    \/ BreakOnState
    \/ DecodePacket
    \/ ExitLoop

BurstSpec == Init /\ [][BurstNext]_vars

\* ------------------------------------------------------------------ steps

\* A step in which process_audio_cmd takes a command from the channel
\* (try_recv returns Ok).
CommandReceived ==
    /\ pc \in {"outer", "inner"}
    /\ pc' \in {"match", "body"}
    /\ audio_rx # <<>>
    /\ audio_rx' = Tail(audio_rx)

\* A step in which reader.next_packet() returns a packet (lines 77-78).
PacketRead ==
    /\ pc = "body"
    /\ IsSome(audio_engine_state.reader)
    /\ IsSome(audio_engine_state'.reader)
    /\ Unwrap(audio_engine_state'.reader).src = Unwrap(audio_engine_state.reader).src
    /\ Unwrap(audio_engine_state'.reader).pos = Unwrap(audio_engine_state.reader).pos + 1

\* A step in which the packet read is passed to decoder.decode (line 98).
PacketDecoded ==
    /\ PacketRead
    /\ IsSome(decoder)
    /\ Media(Unwrap(audio_engine_state.reader).src)
            .packets[Unwrap(audio_engine_state.reader).pos + 1].track_id
       = Unwrap(audio_engine_state.track_info).track_id

\* A step of the audio thread.
EngineStep == pc' # pc

\* The parts of the session: reader, decoder, output and PlayTrackOptions.
SessionParts ==
    <<audio_engine_state.reader, decoder, audio_engine_state.audio_output,
      audio_engine_state.track_info>>

\* ----------------------------------------------------------------- claims

\* C1: whatever commands are sent and however a load or a packet read ends,
\* the control loop of the audio thread never panics.
C1_NeverPanics == pc # "panicked"

\* C2: once the LoadFile arm has run for a path, every packet read comes from
\* a reader opened on that path, every packet decoded is decoded by a decoder
\* made for that path, and the output written was opened for that path.
C2_NoCrossTalk ==
    [][PacketRead =>
        /\ IsSome(current_track_path)
        /\ Unwrap(audio_engine_state.reader).src = Unwrap(current_track_path)
        /\ PacketDecoded => Unwrap(decoder).src = Unwrap(current_track_path)
        /\ IsSome(audio_engine_state'.audio_output) =>
              Unwrap(audio_engine_state'.audio_output).src = Unwrap(current_track_path)
      ]_vars

\* C3: after a LoadFile whose load failed the audio thread is alive and idle:
\* it reads no packet until a later load succeeds.
C3_FailedLoadIdle ==
    [][(/\ IsSome(last_load')
        /\ Unwrap(last_load').offset = 0
        /\ Unwrap(last_load').outcome # "loaded")
       => (pc' # "panicked" /\ state'.tag # "Playing" /\ ~PacketRead)]_vars

\* C4: after LoadFile of a path that does not exist the audio thread is alive
\* and idle, with no output open.
C4_MissingFileIdle ==
    (IsSome(last_load) /\ ~Media(Unwrap(last_load).path).exists)
    => /\ pc # "panicked"
       /\ state.tag # "Playing"
       /\ ~IsSome(audio_engine_state.audio_output)

\* C5 as stated: the output is present only while the state is Playing.
C5_SinkOnlyWhilePlaying ==
    state.tag # "Playing" => ~IsSome(audio_engine_state.audio_output)

\* C5 as amended: the output is present only while the state is Playing or
\* Paused, or between the receipt of a command and the arm of the state it
\* selects; so it is absent once the Stopped, LoadFile or SeekTo arm has run.
C5_SinkLifetime ==
    IsSome(audio_engine_state.audio_output)
    => (state.tag \in {"Playing", "Paused"} \/ IsSome(pending))

\* C5 witness: the Paused arm has run and the output is still open.
C5_Witness ==
    /\ IsSome(audio_engine_state.audio_output)
    /\ state.tag = "Paused"
    /\ pending = None
    /\ pc = "outer"

\* C6: the work a received Stop, Seek or LoadFile calls for (the flush and
\* release of an open output, the reload) is done before the next command is
\* received.
C6_WorkBeforeNextCommand ==
    [][CommandReceived =>
        ~(/\ IsSome(pending)
          /\ \/ Unwrap(pending).cmd = "Stop" /\ IsSome(audio_engine_state.audio_output)
             \/ Unwrap(pending).cmd = "LoadFile"
             \/ Unwrap(pending).cmd = "Seek" /\ IsSome(current_track_path))
      ]_vars

\* C7: after receiving a command the audio thread acts according to the
\* resulting state (runs its match arm, or reads a packet when Playing)
\* before it receives another.
C7_OneCommandPerIteration == [][CommandReceived => ~IsSome(pending)]_vars

\* C8: a command with no transition from the current state in the transport
\* state diagram leaves the state unchanged when it is received.
C8_NoOpCommands ==
    [][LET HasTransition(tag, cmd) ==
               \/ tag \in {"Unstarted", "Stopped"} /\ cmd = "LoadFile"
               \/ tag = "Playing" /\ cmd \in {"Stop", "Pause", "Seek"}
               \/ tag = "Paused" /\ cmd = "Play"
       IN  (CommandReceived /\ ~HasTransition(state.tag, Head(audio_rx).cmd))
           => state' = state]_vars

\* C9: when the decode loop ends on end of stream, one AudioFinished event is
\* sent and no error line is logged.
C9_EndOfStream ==
    [][(pc = "exit" /\ pc' # "exit" /\ result = "end of stream")
       => /\ \/ ui_tx' = Append(ui_tx, AudioFinished)
             \/ AudioFinished \in {ui_tx[i] : i \in 1..Len(ui_tx)}
          /\ \A i \in 1..Len(log') : log'[i].level # "error"]_vars

\* C10: every packet written to the output since the last run of the Load
\* Procedure has a timestamp not below the seek timestamp that run resolved.
C10_TrimInvariant ==
    (/\ IsSome(audio_engine_state.audio_output)
     /\ IsSome(last_load)
     /\ IsSome(Unwrap(last_load).seek_ts))
    => \A ts \in Unwrap(audio_engine_state.audio_output).wrote :
            ts >= Unwrap(Unwrap(last_load).seek_ts)

\* C10 witness: after a seek resolved to 44100 a packet with timestamp 0 was
\* decoded and reported (the output is open), and nothing has been written.
C10_Witness ==
    /\ IsSome(last_load)
    /\ Unwrap(last_load).seek_ts = Some(44100)
    /\ IsSome(audio_engine_state.audio_output)
    /\ Unwrap(audio_engine_state.audio_output).wrote = {}
    /\ ui_tx = <<CurrentTimestamp(0)>>

\* C11: Pause then Play, received while Playing, leaves the session as it
\* was: every step of the audio thread from the receipt of Pause to the
\* re-entry of the decode loop after Play (the steps with the state Paused
\* before or after, and the Playing arm run for the Play) keeps reader,
\* decoder, output and PlayTrackOptions, runs no load and makes no call on
\* the output; the reader keeps its position, so the next packet read is the
\* next unread one.
C11_PauseThenPlay ==
    [][(/\ EngineStep
        /\ \/ state.tag = "Paused"
           \/ state'.tag = "Paused"
           \/ pc = "match" /\ pending = Some(Cmd("Play", "", 0)))
       => /\ SessionParts' = SessionParts
          /\ last_load' = last_load
          /\ \A i \in 1..Len(calls') : calls'[i].obj # "output"]_vars

\* C11 witness: a file is half played with the output open, Pause has been
\* received and acted on, and Play is the next command.
C11_Witness ==
    /\ state.tag = "Paused"
    /\ pc = "outer"
    /\ pending = None
    /\ audio_rx = <<Cmd("Play", "", 0)>>
    /\ IsSome(audio_engine_state.audio_output)
    /\ IsSome(audio_engine_state.reader)
    /\ Unwrap(audio_engine_state.reader).pos \in
            1..(Len(Media(Unwrap(audio_engine_state.reader).src).packets) - 1)

\* C12: a packet the decoder answers with a decode error does not end
\* playback: the state stays Playing, the decode loop goes back to its top
\* with the reader on the next packet and nothing to break with; and the
\* pass of the loop that follows a packet with a decode error, when a
\* further packet exists, sends the CurrentTimestamp event of that packet.
C12_DecodeErrorContinues ==
    [][LET reader == Unwrap(audio_engine_state.reader)
           packets == Media(reader.src).packets
       IN  /\ (PacketDecoded /\ packets[reader.pos + 1].dec = "decode_error")
              => /\ state' = state
                 /\ state.tag = "Playing"
                 /\ pc' = "inner"
                 /\ result' = result
                 /\ Unwrap(audio_engine_state'.reader).pos = reader.pos + 1
           /\ (/\ pc = "body"
               /\ EngineStep
               /\ state.tag = "Playing"
               /\ IsSome(audio_engine_state.reader)
               /\ reader.pos \in 1..(Len(packets) - 1)
               /\ packets[reader.pos].dec = "decode_error")
              => ui_tx' = Append(ui_tx, CurrentTimestamp(
                                current_track_seconds(packets[reader.pos + 1].ts)))
      ]_vars

\* C12 witness: the third packet of a.flac has just been passed to the
\* decoder, which answered with a decode error, and the audio thread is at
\* the top of the decode loop with a further packet to read.
C12_Witness ==
    /\ pc = "inner"
    /\ state.tag = "Playing"
    /\ calls = <<Call("decode", "decoder", 1)>>
    /\ IsSome(audio_engine_state.reader)
    /\ Unwrap(audio_engine_state.reader) = [src |-> "a.flac", pos |-> 3]

\* C13: every packet passed to the decoder has the track id of the active
\* PlayTrackOptions, and a packet read with another track id is discarded:
\* no call is made on the decoder or on the output for it, and the output is
\* left as it was.
C13_TrackFilter ==
    [][/\ \A i \in 1..Len(calls') :
            calls'[i].op = "decode"
            => /\ IsSome(audio_engine_state.track_info)
               /\ calls'[i].n = Unwrap(audio_engine_state.track_info).track_id
       /\ (/\ PacketRead
           /\ Media(Unwrap(audio_engine_state.reader).src)
                .packets[Unwrap(audio_engine_state.reader).pos + 1].track_id
              # Unwrap(audio_engine_state.track_info).track_id)
          => /\ calls' = <<>>
             /\ audio_engine_state'.audio_output = audio_engine_state.audio_output
             /\ decoder' = decoder
      ]_vars

\* C13 witness: the first packet of a.flac (track 1, the selected track) was
\* decoded and written, and its second packet (track 0) has just been read
\* and discarded.
C13_Witness ==
    /\ pc = "inner"
    /\ calls = <<>>
    /\ IsSome(audio_engine_state.reader)
    /\ Unwrap(audio_engine_state.reader) = [src |-> "a.flac", pos |-> 2]
    /\ Unwrap(audio_engine_state.track_info).track_id = 1
    /\ audio_engine_state.audio_output = Some([src |-> "a.flac", wrote |-> {0}])
    /\ ui_tx = <<CurrentTimestamp(0)>>

\* C14: the LoadFile arm drops the parts of the prior session in the order
\* reader, decoder, output, and drops all of them before it makes any part
\* of the new session.
C14_DestroyBeforeConstruct ==
    [][(pc = "match" /\ state.tag = "LoadFile" /\ EngineStep)
       => LET At(op, obj) == {i \in 1..Len(calls') :
                                calls'[i].op = op /\ calls'[i].obj = obj}
              Before(I, J) == \A i \in I : \A j \in J : i < j
          IN  /\ Before(At("drop", "reader") \cup At("drop", "decoder")
                          \cup At("drop", "output"),
                        At("new", "reader") \cup At("new", "decoder"))
              /\ Before(At("drop", "reader"), At("drop", "decoder"))
              /\ Before(At("drop", "decoder"), At("drop", "output"))
      ]_vars

\* C15: between two consecutive runs of the Load Procedure the output is
\* opened at most once.
C15_OneOpenPerLoad ==
    IsSome(last_load) => Unwrap(last_load).opens <= 1

\* C16: whenever the decode loop of a session with a decoder has ended,
\* whatever it broke with, the step that handles its result finalizes the
\* decoder.
C16_FinalizeOnExit ==
    [][(pc = "exit" /\ EngineStep /\ IsSome(decoder))
       => \E i \in 1..Len(calls') : calls'[i] = Call("finalize", "decoder", 0)]_vars

\* C17: the index of a received Select(i) becomes the track index the Load
\* Procedure prefers (track_num), and a load whose probe succeeds selects
\* the track with that index if there is one, otherwise the first track
\* whose codec is not the null codec.
C17_SelectedTrack ==
    [][/\ (CommandReceived /\ Head(audio_rx).cmd = "Select")
          => audio_engine_state'.track_num = Some(Head(audio_rx).arg)
       /\ (/\ pc = "match"
           /\ EngineStep
           /\ \E i \in 1..Len(calls') : calls'[i] = Call("new", "reader", 0)
           /\ Unwrap(last_load').outcome = "loaded")
          => Unwrap(audio_engine_state'.track_info).track_id
             = Unwrap(select_track(Media(Unwrap(last_load').path).tracks,
                                   audio_engine_state.track_num)).id
      ]_vars

C19_SeekErrorsNotFatal ==
    [][(/\ pc = "match"
        /\ EngineStep
        /\ \E i \in 1..Len(calls') :
              calls'[i].op = "seek" /\ calls'[i].obj \in {"ResetRequired", "SeekError"})
       => LET run == Unwrap(last_load')
              tracks == Media(run.path).tracks
              reset == \E i \in 1..Len(calls') : calls'[i].obj = "ResetRequired"
              track == IF reset THEN first_supported_track(tracks)
                       ELSE select_track(tracks, audio_engine_state.track_num)
          IN  /\ run.seek_ts = Some(0)
              /\ run.outcome \in {"loaded", "no decoder"}
              /\ run.outcome = "loaded"
                 => /\ pc' = "outer"
                    /\ state'.tag = "Playing"
                    /\ audio_engine_state'.track_info =
                          Some([track_id |-> Unwrap(track).id, seek_ts |-> 0])
                    /\ decoder' = Some(MakeDecoder(run.path, Unwrap(track)))
                    /\ \E i \in 1..Len(calls') : calls'[i] = Call("new", "decoder", 0)
      ]_vars

\* C19 witness: a Seek has reloaded a.flac, the reader answered the seek with
\* ResetRequired, and the state is Playing.
C19_Witness ==
    /\ pc = "outer"
    /\ state.tag = "Playing"
    /\ IsSome(last_load)
    /\ Unwrap(last_load).path = "a.flac"
    /\ Unwrap(last_load).offset = 1
    /\ Unwrap(last_load).outcome = "loaded"
    /\ \E i \in 1..Len(calls) : calls[i] = Call("seek", "ResetRequired", 0)

\* C20: the SeekTo arm, when a LoadFile has set the current track path,
\* flushes and drops the output, runs the Load Procedure on that path with
\* the seconds of the state and makes the state Playing; with no current
\* track path it loads nothing, opens no output and leaves the state SeekTo.
\* The current track path is the path of the last LoadFile handled: only the
\* LoadFile arm sets it.
C20_SeekReloads ==
    [][/\ (pc = "match" /\ state.tag = "SeekTo" /\ EngineStep)
          => IF IsSome(current_track_path)
             THEN /\ last_load' = Some([Unwrap(last_load') EXCEPT
                                    !.path = Unwrap(current_track_path),
                                    !.offset = state.secs, !.opens = 0])
                  /\ SubSeq(calls', 1, Len(DropOutput(audio_engine_state.audio_output)))
                        = DropOutput(audio_engine_state.audio_output)
                  /\ audio_engine_state'.audio_output = None
                  /\ state'.tag = "Playing"
                  /\ pc' = "outer"
                  /\ current_track_path' = current_track_path
             ELSE /\ state' = state
                  /\ audio_engine_state' = audio_engine_state
                  /\ decoder' = decoder
                  /\ last_load' = last_load
                  /\ calls' = <<>>
       /\ (EngineStep /\ pc' # "panicked")
          => current_track_path' =
                IF pc = "match" /\ state.tag = "LoadFile"
                THEN Some(state.path) ELSE current_track_path
      ]_vars

\* C20 witness: a Seek received while a.flac was playing with the output
\* open has flushed and dropped the output and reloaded a.flac at 1 second.
C20_Witness ==
    /\ pc = "outer"
    /\ state.tag = "Playing"
    /\ current_track_path = Some("a.flac")
    /\ IsSome(last_load)
    /\ Unwrap(last_load).path = "a.flac"
    /\ Unwrap(last_load).offset = 1
    /\ Len(calls) >= 2
    /\ SubSeq(calls, 1, 2) = <<Call("flush", "output", 0), Call("drop", "output", 0)>>
    /\ audio_engine_state.audio_output = None


\* C22: every step of the audio thread that reads a packet appends exactly
\* one CurrentTimestamp event to the event channel, whether the packet is
\* then discarded, decoded, or written; and no other step of the audio
\* thread appends or removes an event.
C22_OneEventPerPacket ==
    [][EngineStep =>
        IF PacketRead
        THEN /\ Len(ui_tx') = Len(ui_tx) + 1
             /\ SubSeq(ui_tx', 1, Len(ui_tx)) = ui_tx
             /\ ui_tx'[Len(ui_tx')].ev = "CurrentTimestamp"
        ELSE ui_tx' = ui_tx]_vars

\* C22 witness: after a seek to second 1 the first packet of a.flac was read
\* and decoded but not written (its timestamp is below the seek timestamp),
\* and its event is in the channel.
C22_Witness ==
    /\ pc = "inner"
    /\ calls = <<Call("decode", "decoder", 1), Call("open", "output", 0)>>
    /\ IsSome(audio_engine_state.reader)
    /\ Unwrap(audio_engine_state.reader) = [src |-> "a.flac", pos |-> 1]
    /\ Len(ui_tx) = 1
    /\ ui_tx[1].ev = "CurrentTimestamp"

\* C23: the step of the Stopped arm flushes and drops the output if there is
\* one, so the output is absent after it; it leaves the state, the reader,
\* the decoder, the PlayTrackOptions and the path of the current track as
\* they were; and taken without an output it changes nothing of the session
\* and makes no call.
C23_StoppedStep ==
    [][(pc = "match" /\ state.tag = "Stopped" /\ EngineStep) =>
        /\ audio_engine_state'.audio_output = None
        /\ calls' = IF IsSome(audio_engine_state.audio_output)
                    THEN <<Call("flush", "output", 0), Call("drop", "output", 0)>>
                    ELSE <<>>
        /\ audio_engine_state'.reader = audio_engine_state.reader
        /\ audio_engine_state'.track_info = audio_engine_state.track_info
        /\ decoder' = decoder
        /\ current_track_path' = current_track_path
        /\ state' = state
        /\ ~IsSome(audio_engine_state.audio_output)
           => audio_engine_state' = audio_engine_state]_vars

\* C23 witness: the Stopped arm has just flushed and dropped the output of a
\* session whose reader, decoder and PlayTrackOptions are still in place.
C23_Witness ==
    /\ pc = "outer"
    /\ state.tag = "Stopped"
    /\ calls = <<Call("flush", "output", 0), Call("drop", "output", 0)>>
    /\ audio_engine_state.audio_output = None
    /\ IsSome(audio_engine_state.reader)
    /\ IsSome(audio_engine_state.track_info)
    /\ IsSome(decoder)

\* C24: the value of the CurrentTimestamp event sent for a packet is the
\* timestamp of the packet in seconds of the time base of the track the
\* PlayTrackOptions name in the file being read.
C24_TimeBaseOfTrack ==
    [][PacketRead =>
        LET reader == Unwrap(audio_engine_state.reader)
            media == Media(reader.src)
            packet == media.packets[reader.pos + 1]
            play_opts == Unwrap(audio_engine_state.track_info)
        IN  \A i \in 1..Len(media.tracks) :
                (media.tracks[i].id = play_opts.track_id
                 /\ IsSome(media.tracks[i].time_base))
                => ui_tx'[Len(ui_tx')].val
                   = packet.ts \div Unwrap(media.tracks[i].time_base)]_vars

\* C25: whenever a packet is read in the decode loop, the PlayTrackOptions
\* it is filtered with name a track of the file the reader was opened on,
\* and the decoder it would be passed to was made for that file and that
\* track: the reader, the decoder and the PlayTrackOptions are those of one
\* run of load_file.
C25_OneLoadRun ==
    [][PacketRead =>
        LET reader == Unwrap(audio_engine_state.reader)
            media == Media(reader.src)
            play_opts == Unwrap(audio_engine_state.track_info)
        IN  /\ \E i \in 1..Len(media.tracks) :
                    media.tracks[i].id = play_opts.track_id
            /\ IsSome(decoder)
            /\ Unwrap(decoder).src = reader.src
            /\ Unwrap(decoder).track_id = play_opts.track_id]_vars

\* C29: the step that takes a Select or a SetVolume command from the channel
\* leaves the state, the reader, the decoder, the output, the
\* PlayTrackOptions and the path of the current track as they were; taken in
\* the decode loop it leaves the loop in the Playing state about to read the
\* next packet.
C29_SelectSetVolume ==
    [][(CommandReceived /\ Head(audio_rx).cmd \in {"Select", "SetVolume"}) =>
        /\ state' = state
        /\ SessionParts' = SessionParts
        /\ current_track_path' = current_track_path
        /\ pc = "inner" => (pc' = "body" /\ state'.tag = "Playing")]_vars

\* C29 witness: a SetVolume command was taken in the decode loop after the
\* first packet of a.flac, and the loop is about to read the second.
C29_Witness ==
    /\ pc = "body"
    /\ pending = Some(Cmd("SetVolume", "", 50))
    /\ state.tag = "Playing"
    /\ IsSome(audio_engine_state.reader)
    /\ Unwrap(audio_engine_state.reader) = [src |-> "a.flac", pos |-> 1]
    /\ IsSome(audio_engine_state.audio_output)

\* C28: once the decode loop has ended on end of stream, and until a command
\* is received, no step of the audio thread calls next_packet on the reader,
\* finalizes the decoder or sends an event.
C28_IdleAfterEnd ==
    [][(ended /\ EngineStep /\ ~CommandReceived) =>
        /\ ~(pc = "body" /\ state.tag = "Playing")
        /\ \A i \in 1..Len(calls') : calls'[i].op # "finalize"
        /\ ui_tx' = ui_tx]_vars

\* C21 as stated: no packet is read while a Stop, Pause, Seek or LoadFile
\* command that was in the channel at the start of the iteration is still
\* there.  (Commands are queued only between iterations, so at the read the
\* channel holds what it held at the start of the iteration, less the
\* command the poll took.)
C21_PolledBeforePacket ==
    [][PacketRead =>
        \A i \in 1..Len(audio_rx) :
            audio_rx[i].cmd \notin {"Stop", "Pause", "Seek", "LoadFile"}]_vars

\* C21 as amended: every iteration of the decode loop polls the channel
\* before it reads a packet and takes the command at its head, no more; a
\* Stop, Pause, Seek or LoadFile command at the head leaves a state other
\* than Playing, in which the iteration reads, decodes and writes nothing
\* and sends no event; and a packet is read only in the Playing state, after
\* a poll that found nothing or a Play, Select or SetVolume command.
C21_HeadPolledBeforePacket ==
    [][/\ (pc = "inner" /\ EngineStep /\ audio_rx # <<>>)
          => /\ audio_rx' = Tail(audio_rx)
             /\ pending' = Some(Head(audio_rx))
             /\ pc' = "body"
             /\ Head(audio_rx).cmd \in {"Stop", "Pause", "Seek", "LoadFile"}
                => state'.tag # "Playing"
       /\ (pc = "body" /\ EngineStep /\ state.tag # "Playing")
          => /\ audio_engine_state' = audio_engine_state
             /\ ui_tx' = ui_tx
             /\ calls' = <<>>
             /\ pc' = "exit"
       /\ PacketRead
          => /\ state.tag = "Playing"
             /\ IsSome(pending)
                => Unwrap(pending).cmd \in {"Play", "Select", "SetVolume"}]_vars

\* C21 witness: a Stop command was at the head of the channel, before a
\* SetVolume command, when an iteration of the decode loop started after the
\* first packet of a.flac; the poll has taken it and no further packet was
\* read.
C21_Witness ==
    /\ pc = "exit"
    /\ pending = Some(Cmd("Stop", "", 0))
    /\ state.tag = "Stopped"
    /\ audio_rx = <<Cmd("SetVolume", "", 50)>>
    /\ IsSome(audio_engine_state.reader)
    /\ Unwrap(audio_engine_state.reader) = [src |-> "a.flac", pos |-> 1]

\* C26: whenever a track is selected, the command channel is empty and the
\* audio thread has done the work of the last command it received, the
\* state of the audio thread is the track_state of the Player.
C26_StatesAgree ==
    (/\ IsSome(selected_track)
     /\ audio_rx = <<>>
     /\ pending = None
     /\ pc \in {"outer", "inner"})
    => state.tag = track_state

\* C27: with the Player as the only source of commands, the audio thread is
\* in the decode loop, or about to enter it, only with a reader, a decoder
\* and PlayTrackOptions in place.
C27_LoopHasSession ==
    (pc \in {"inner", "body"} \/ (pc = "match" /\ state.tag = "Playing"))
    => /\ IsSome(audio_engine_state.reader)
       /\ IsSome(decoder)
       /\ IsSome(audio_engine_state.track_info)

\* C27 witness: the Player was paused and resumed, its Play command has been
\* received and the audio thread is about to enter the decode loop with the
\* session of the LoadFile handled before.
C27_Witness ==
    /\ pc = "match"
    /\ pending = Some(Cmd("Play", "", 0))
    /\ state.tag = "Playing"
    /\ track_state = "Playing"
    /\ IsSome(audio_engine_state.reader)
    /\ IsSome(decoder)
    /\ IsSome(audio_engine_state.track_info)

====
